---- MODULE Spec2Model ----
(***************************************************************************)
(* A model of src/libs/siteDiff.ts: the manifest differ (detectNewFiles,   *)
(* detectDeletedFiles, detectChangedFiles, calcSiteDiffRootHash,           *)
(* generateReport), the comparePath extraction (getComparePath), the       *)
(* concurrent hashing of a file list (processFileList) and the 404         *)
(* heuristic of the mirror step (cloneWebsite).                            *)
(*                                                                         *)
(* JavaScript values that a reducer mixes (booleans, strings, undefined)   *)
(* are tagged records, so that truthiness is computed as JavaScript does.  *)
(* Strings the code only compares for equality (comparePaths) are TLA+     *)
(* strings; strings the code orders, splits or concatenates are sequences. *)
(***************************************************************************)
EXTENDS Integers, Sequences, FiniteSets, TLC

VARIABLES
  \* generateReport
  oldFileList, newFileList, ignoredFilesConfig, pc,
  newFiles, deletedFiles, changedFiles, ignoredFiles,
  htmlDiffPromises, report,
  \* the order in which the diff processes of a call have exited
  completed,
  \* getComparePath
  filePath, siteBase, comparePath, cpPc,
  \* processFileList
  fileList, siteBaseName, callbacks, hashedList, pflPc, resolvedList,
  \* cloneWebsite
  cwPc, cwErr, cwResult, cwThrown

reportVars == <<oldFileList, newFileList, ignoredFilesConfig, pc,
                newFiles, deletedFiles, changedFiles, ignoredFiles,
                htmlDiffPromises, report, completed>>

comparePathVars == <<filePath, siteBase, comparePath, cpPc>>

processVars == <<fileList, siteBaseName, callbacks, hashedList, pflPc, resolvedList>>

cloneVars == <<cwPc, cwErr, cwResult, cwThrown>>

vars == <<reportVars, comparePathVars, processVars, cloneVars>>

----------------------------------------------------------------------------
(* Bounds of the model *)

\* longest manifest (number of file records)
MaxLen == 2

\* longest ignore-list
MaxIgnore == 1

\* most segments of a file path
MaxSegs == 3

\* most files of a file list
MaxFiles == 3

\* most tokens of the text a wget process ends with
MaxMsg == 5

----------------------------------------------------------------------------
(* JavaScript values *)

Undefined == [t |-> "undefined"]

Bool(b) == [t |-> "boolean", v |-> b]

Str(s) == [t |-> "string", v |-> s]

\* ToBoolean: undefined and '' and false are falsy
Truthy(x) ==
  CASE x.t = "undefined" -> FALSE
    [] x.t = "boolean" -> x.v
    [] x.t = "string" -> x.v # <<>>

\* Array.prototype.indexOf: 0-based index of the first strictly equal element, or -1
IndexOf(arr, x) ==
  IF \E i \in 1..Len(arr) : arr[i] = x
  THEN (CHOOSE i \in 1..Len(arr) : arr[i] = x /\ \A j \in 1..(i - 1) : arr[j] # x) - 1
  ELSE -1

\* all sequences over S of length at most n
SeqUpTo(S, n) == UNION {[1..k -> S] : k \in 0..n}

----------------------------------------------------------------------------
(* Manifests: ISiteDiffFileInfo[] *)

ComparePaths == {"a.html", "b.html"}

\* hex digests, as sequences of digits: <<1, 2>> sorts before <<2>>
Hashes == {<<2>>, <<1, 2>>}

\* the directories a capture lives in
Dirs == {"site.cache", "site.clone"}

\* the i-th file walked under dir has its own full path
FileInfo(dir, i, c) ==
  [fullPath |-> <<dir, i>>, comparePath |-> c.comparePath, hash |-> c.hash,
   type |-> "file"]

Contents == [comparePath : ComparePaths, hash : Hashes]

Manifests ==
  {[i \in 1..Len(cs) |-> FileInfo(dir, i, cs[i])] :
     dir \in Dirs, cs \in SeqUpTo(Contents, MaxLen)}

IgnoreLists == SeqUpTo(ComparePaths, MaxIgnore)

----------------------------------------------------------------------------
(* detectNewFiles, detectDeletedFiles, detectChangedFiles *)

\* FoundReducer comparing the hashes where the code compares the comparePaths
FoundReducerByHash(item, found, other) ==
  IF Truthy(found) THEN found ELSE Bool(item.hash = other.hash)

\* the reducer of detectNewFiles and detectDeletedFiles
FoundReducer(item, found, other) ==
  IF Truthy(found) THEN found ELSE Bool(item.comparePath = other.comparePath)

\* others.reduce(FoundReducer, found), left to right from the i-th element
RECURSIVE ReduceFound(_, _, _, _)
ReduceFound(item, others, i, found) ==
  IF i > Len(others) THEN found
  ELSE ReduceFound(item, others, i + 1, FoundReducer(item, found, others[i]))

detectNewFiles(old, new) ==
  SelectSeq(new, LAMBDA newItem : ~Truthy(ReduceFound(newItem, old, 1, Bool(FALSE))))

detectDeletedFiles(old, new) ==
  SelectSeq(old, LAMBDA oldItem : ~Truthy(ReduceFound(oldItem, new, 1, Bool(FALSE))))

\* ChangedReducer with the hash comparison inverted
ChangedReducerSameHash(newItem, found, oldItem) ==
  IF Truthy(found) THEN found
  ELSE IF newItem.comparePath = oldItem.comparePath
       THEN Bool(newItem.hash = oldItem.hash)
       ELSE Undefined

\* ChangedReducer without the early return on a truthy accumulator
ChangedReducerNoGuard(newItem, found, oldItem) ==
  IF newItem.comparePath = oldItem.comparePath
  THEN Bool(newItem.hash # oldItem.hash)
  ELSE Undefined

\* the reducer of detectChangedFiles: no return on a comparePath mismatch
ChangedReducer(newItem, found, oldItem) ==
  IF Truthy(found) THEN found
  ELSE IF newItem.comparePath = oldItem.comparePath
       THEN Bool(newItem.hash # oldItem.hash)
       ELSE Undefined

\* old.reduce(ChangedReducer, found), left to right from the i-th element
RECURSIVE ReduceChanged(_, _, _, _)
ReduceChanged(newItem, old, i, found) ==
  IF i > Len(old) THEN found
  ELSE ReduceChanged(newItem, old, i + 1, ChangedReducer(newItem, found, old[i]))

detectChangedFiles(old, new) ==
  SelectSeq(new, LAMBDA newItem : Truthy(ReduceChanged(newItem, old, 1, Bool(FALSE))))

----------------------------------------------------------------------------
(* calcSiteDiffRootHash *)

\* string comparison by code unit, as Array.prototype.sort() without a comparator
RECURSIVE StrLess(_, _)
StrLess(a, b) ==
  IF b = <<>> THEN FALSE
  ELSE IF a = <<>> THEN TRUE
  ELSE IF Head(a) # Head(b) THEN Head(a) < Head(b)
  ELSE StrLess(Tail(a), Tail(b))

RECURSIVE Insert(_, _)
Insert(x, sorted) ==
  IF sorted = <<>> THEN <<x>>
  ELSE IF StrLess(x, Head(sorted)) THEN <<x>> \o sorted
  ELSE <<Head(sorted)>> \o Insert(x, Tail(sorted))

RECURSIVE Sort(_)
Sort(arr) == IF arr = <<>> THEN <<>> ELSE Insert(Head(arr), Sort(Tail(arr)))

RECURSIVE Join(_)
Join(arr) == IF arr = <<>> THEN <<>> ELSE Head(arr) \o Join(Tail(arr))

\* the digest of a string: a function of the string and of nothing else
hashSha256(s) == <<"sha256", s>>

\* calcSiteDiffRootHash without the sort
calcSiteDiffRootHashUnsorted(manifest) ==
  hashSha256(Join([i \in 1..Len(manifest) |-> manifest[i].hash]))

calcSiteDiffRootHash(manifest) ==
  hashSha256(Join(Sort([i \in 1..Len(manifest) |-> manifest[i].hash])))

----------------------------------------------------------------------------
(* generateReport *)

NoReport == [t |-> "undefined"]

\* IsIgnored testing the index for > 0 where the code tests it for !== -1
IsIgnoredPositiveIndex(file, config) == IndexOf(config, file.comparePath) > 0

IsIgnored(file, config) == IndexOf(config, file.comparePath) # -1

IsNotIgnored(file, config) == IndexOf(config, file.comparePath) = -1

\* OldFilePathReducer without the early return on a truthy accumulator
OldFilePathReducerNoGuard(newFile, filepath, oldFile) ==
  IF newFile.comparePath = oldFile.comparePath
  THEN Str(oldFile.fullPath)
  ELSE Undefined

\* the reducer that looks up the old file of a changed file
OldFilePathReducer(newFile, filepath, oldFile) ==
  IF Truthy(filepath) THEN filepath
  ELSE IF newFile.comparePath = oldFile.comparePath
       THEN Str(oldFile.fullPath)
       ELSE Undefined

\* oldFileList.reduce(OldFilePathReducer, filepath), left to right from the i-th element
RECURSIVE ReduceOldFilePath(_, _, _, _)
ReduceOldFilePath(newFile, old, i, filepath) ==
  IF i > Len(old) THEN filepath
  ELSE ReduceOldFilePath(newFile, old, i + 1, OldFilePathReducer(newFile, filepath, old[i]))

OldFilePath(newFile, old) == ReduceOldFilePath(newFile, old, 1, Str(<<>>))

\* what the diff | pygmentize pipeline prints for two paths
getHTMLDiffFromTwoFiles(file1Path, file2Path) == <<"diff", file1Path, file2Path>>

\* the value generateReport returns
ReportOf(old, new, nf, df, cf, igf, diffs) ==
  [t |-> "report",
   cachedManifest |-> old,
   clonedManifest |-> new,
   clonedRootHash |-> calcSiteDiffRootHash(new),
   newFiles |-> nf,
   deletedFiles |-> df,
   changedFiles |-> cf,
   ignoredFiles |-> igf,
   htmlDiffs |-> diffs]

\* Promise.all resolves with the values in the order of the promises
PromiseAllValues(promises) == [i \in 1..Len(promises) |-> promises[i].value]

AllResolved(promises) == \A i \in 1..Len(promises) : promises[i].state = "resolved"

InitReport ==
  /\ oldFileList = <<>>
  /\ newFileList = <<>>
  /\ ignoredFilesConfig = <<>>
  /\ pc = "idle"
  /\ newFiles = <<>>
  /\ deletedFiles = <<>>
  /\ changedFiles = <<>>
  /\ ignoredFiles = <<>>
  /\ htmlDiffPromises = <<>>
  /\ completed = <<>>
  /\ report = NoReport

\* the call, up to the await of Promise.all (through it when nothing changed)
generateReport(old, new, config) ==
  /\ pc = "idle"
  /\ LET nf == detectNewFiles(old, new)
         df == detectDeletedFiles(old, new)
         detected == detectChangedFiles(old, new)
         igf == SelectSeq(detected, LAMBDA file : IsIgnored(file, config))
         cf == SelectSeq(detected, LAMBDA file : IsNotIgnored(file, config))
         promises == [i \in 1..Len(cf) |->
                        [oldFilePath |-> OldFilePath(cf[i], old),
                         newFilePath |-> cf[i].fullPath,
                         state |-> "pending",
                         value |-> <<>>]]
     IN /\ oldFileList' = old
        /\ newFileList' = new
        /\ ignoredFilesConfig' = config
        /\ newFiles' = nf
        /\ deletedFiles' = df
        /\ changedFiles' = cf
        /\ ignoredFiles' = igf
        /\ htmlDiffPromises' = promises
        /\ completed' = <<>>
        /\ IF AllResolved(promises)
           THEN /\ pc' = "returned"
                /\ report' = ReportOf(old, new, nf, df, cf, igf, PromiseAllValues(promises))
           ELSE /\ pc' = "awaiting"
                /\ report' = NoReport
  /\ UNCHANGED <<comparePathVars, processVars, cloneVars>>

\* the i-th diff process exits with its output; the last one resumes generateReport
DiffResolves(i) ==
  /\ pc = "awaiting"
  /\ i \in 1..Len(htmlDiffPromises)
  /\ htmlDiffPromises[i].state = "pending"
  /\ LET p == htmlDiffPromises[i]
         promises == [htmlDiffPromises EXCEPT
                        ![i] = [p EXCEPT !.state = "resolved",
                                         !.value = getHTMLDiffFromTwoFiles(p.oldFilePath,
                                                                           p.newFilePath)]]
     IN /\ htmlDiffPromises' = promises
        /\ completed' = Append(completed, i)
        /\ IF AllResolved(promises)
           THEN /\ pc' = "returned"
                /\ report' = ReportOf(oldFileList, newFileList, newFiles, deletedFiles,
                                      changedFiles, ignoredFiles,
                                      PromiseAllValues(promises))
           ELSE UNCHANGED <<pc, report>>
  /\ UNCHANGED <<oldFileList, newFileList, ignoredFilesConfig,
                 newFiles, deletedFiles, changedFiles, ignoredFiles>>
  /\ UNCHANGED <<comparePathVars, processVars, cloneVars>>

\* the i-th diff process fails: Promise.all rejects and generateReport throws
DiffRejects(i) ==
  /\ pc = "awaiting"
  /\ i \in 1..Len(htmlDiffPromises)
  /\ htmlDiffPromises[i].state = "pending"
  /\ htmlDiffPromises' = [htmlDiffPromises EXCEPT ![i].state = "rejected"]
  /\ completed' = Append(completed, i)
  /\ pc' = "thrown"
  /\ UNCHANGED <<oldFileList, newFileList, ignoredFilesConfig,
                 newFiles, deletedFiles, changedFiles, ignoredFiles, report>>
  /\ UNCHANGED <<comparePathVars, processVars, cloneVars>>

NextReport ==
  \/ /\ pc = "idle"
     /\ \E old \in Manifests, new \in Manifests, config \in IgnoreLists :
          generateReport(old, new, config)
  \/ \E i \in 1..MaxLen + 1 : DiffResolves(i)
  \/ \E i \in 1..MaxLen + 1 : DiffRejects(i)


----------------------------------------------------------------------------
(* getComparePath *)

\* Characters of a path segment and of a site base name. "clone" and "cache"
\* stand for their five letters; no other character of the model is one of
\* their letters.
Letters == {"s", "x", "."}

Words == {"clone", "cache"}

\* the site base names, interpolated unescaped into the regular expression
SiteBases == {<<"s">>, <<".">>, <<"s", ".">>}

\* the segments between the '/' of a file path
Segments ==
  {<<>>, <<"x">>, <<"s">>,
   <<"s", ".", "clone">>, <<"s", ".", "cache">>,
   <<"s", "x", "clone">>, <<"s", ".", "clone", "x">>,
   <<"s", "clone">>, <<"x", "s", ".", "clone">>}

\* filePath.split('/'): a string is the non-empty sequence of its segments
FilePaths == SeqUpTo(Segments, MaxSegs) \ {<<>>}

\* one pattern character against one character of the subject: '.' is any
\* single character (it cannot swallow a whole word), others are literal
AtomMatches(p, c) == IF p = "." THEN c \in Letters ELSE p = c

\* cloneCacheReg.test(val) for new RegExp(`^${siteBase}\.(clone|cache)`): in a
\* template literal \. is a plain '.', so the pattern is siteBase, then any
\* character, then clone or cache, anchored at the start only
CloneCacheTest(base, val) ==
  /\ Len(val) >= Len(base) + 2
  /\ \A i \in 1..Len(base) : AtomMatches(base[i], val[i])
  /\ val[Len(base) + 1] \in Letters
  /\ val[Len(base) + 2] \in Words

\* ComparePathReducer returning [] where the code returns ['']
ComparePathReducerNoSentinel(base, sum, val) ==
  IF Len(sum) # 0 THEN Append(sum, val)
  ELSE <<>>

\* the reducer of getComparePath
ComparePathReducer(base, sum, val) ==
  IF Len(sum) # 0 THEN Append(sum, val)
  ELSE IF CloneCacheTest(base, val) THEN << <<>> >>
  ELSE <<>>

\* segments.reduce(ComparePathReducer, sum), left to right from the i-th element
RECURSIVE ReduceComparePath(_, _, _, _)
ReduceComparePath(base, segments, i, sum) ==
  IF i > Len(segments) THEN sum
  ELSE ReduceComparePath(base, segments, i + 1, ComparePathReducer(base, sum, segments[i]))

\* arr.join('/'), a string with its '/' spelled out
RECURSIVE JoinSlash(_)
JoinSlash(arr) ==
  IF arr = <<>> THEN <<>>
  ELSE IF Len(arr) = 1 THEN arr[1]
  ELSE arr[1] \o <<"/">> \o JoinSlash(Tail(arr))

getComparePath(path, base) ==
  JoinSlash(SelectSeq(ReduceComparePath(base, path, 1, <<>>), LAMBDA x : Len(x) # 0))

ComparePathUnused ==
  /\ filePath = << <<>> >>
  /\ siteBase = <<"s">>
  /\ comparePath = Undefined
  /\ cpPc = "unused"

InitComparePath ==
  /\ filePath \in FilePaths
  /\ siteBase \in SiteBases
  /\ comparePath = Undefined
  /\ cpPc = "call"

CallGetComparePath ==
  /\ cpPc = "call"
  /\ comparePath' = Str(getComparePath(filePath, siteBase))
  /\ cpPc' = "returned"
  /\ UNCHANGED <<filePath, siteBase, reportVars, processVars, cloneVars>>

NextComparePath == CallGetComparePath

----------------------------------------------------------------------------
(* processFileList *)

\* the paths of a walk of /s.clone: two files and the directory itself
WalkedFiles ==
  {[path |-> << <<>>, <<"s", ".", "clone">>, <<"x">> >>, isDirectory |-> FALSE],
   [path |-> << <<>>, <<"s", ".", "clone">>, <<"s">> >>, isDirectory |-> FALSE],
   [path |-> << <<>>, <<"s", ".", "clone">> >>, isDirectory |-> TRUE]}

\* a walk lists every path once
FileLists ==
  {fl \in SeqUpTo(WalkedFiles, MaxFiles) :
     \A i \in 1..Len(fl), j \in 1..Len(fl) : fl[i] = fl[j] => i = j}

\* the digest of the content of the file at a path
hashFileSha256(path) == <<"sha256", path>>

AllDone(cbs) == \A i \in 1..Len(cbs) : cbs[i].state = "done"

ProcessUnused ==
  /\ fileList = <<>>
  /\ siteBaseName = <<"s">>
  /\ callbacks = <<>>
  /\ hashedList = <<>>
  /\ pflPc = "unused"
  /\ resolvedList = Undefined

InitProcess ==
  /\ fileList = <<>>
  /\ siteBaseName = <<"s">>
  /\ callbacks = <<>>
  /\ hashedList = <<>>
  /\ pflPc = "idle"
  /\ resolvedList = Undefined

\* the call: fileList.map runs every callback up to its await, inside the
\* argument list of hashedList.push: fullPath and comparePath are evaluated,
\* hashFileSha256 is started, the push has not happened
processFileList(list, base) ==
  /\ pflPc = "idle"
  /\ fileList' = list
  /\ siteBaseName' = base
  /\ hashedList' = <<>>
  /\ callbacks' = [i \in 1..Len(list) |->
                     [fullPath |-> list[i].path,
                      comparePath |-> getComparePath(list[i].path, base),
                      state |-> "awaiting"]]
  /\ IF Len(list) = 0
     THEN pflPc' = "resolved" /\ resolvedList' = <<>>
     ELSE pflPc' = "awaiting" /\ resolvedList' = Undefined
  /\ UNCHANGED <<reportVars, comparePathVars, cloneVars>>

\* the hash of the i-th file is there: its callback resumes, evaluates type and
\* pushes the record; when it was the last one Promise.all resolves
HashResolves(i) ==
  /\ pflPc = "awaiting"
  /\ i \in 1..Len(callbacks)
  /\ callbacks[i].state = "awaiting"
  /\ LET cbs == [callbacks EXCEPT ![i].state = "done"]
         pushed == Append(hashedList,
                          [fullPath |-> callbacks[i].fullPath,
                           comparePath |-> callbacks[i].comparePath,
                           hash |-> hashFileSha256(fileList[i].path),
                           type |-> IF fileList[i].isDirectory THEN "folder" ELSE "file"])
     IN /\ callbacks' = cbs
        /\ hashedList' = pushed
        /\ IF AllDone(cbs)
           THEN pflPc' = "resolved" /\ resolvedList' = pushed
           ELSE UNCHANGED <<pflPc, resolvedList>>
  /\ UNCHANGED <<fileList, siteBaseName, reportVars, comparePathVars, cloneVars>>

\* the hash of the i-th file fails: Promise.all rejects, processFileList rejects
HashRejects(i) ==
  /\ pflPc = "awaiting"
  /\ i \in 1..Len(callbacks)
  /\ callbacks[i].state = "awaiting"
  /\ callbacks' = [callbacks EXCEPT ![i].state = "failed"]
  /\ pflPc' = "rejected"
  /\ UNCHANGED <<fileList, siteBaseName, hashedList, resolvedList,
                 reportVars, comparePathVars, cloneVars>>

NextProcess ==
  \/ /\ pflPc = "idle"
     /\ \E list \in FileLists : processFileList(list, <<"s">>)
  \/ \E i \in 1..MaxFiles : HashResolves(i)
  \/ \E i \in 1..MaxFiles : HashRejects(i)

----------------------------------------------------------------------------
(* cloneWebsite *)

\* The text of a wget run, in tokens: "\n" ends a line, no other token holds
\* a line end, a ':' or a part of "ERROR ".
Tokens == {"ERROR ", "404", "500", ":", "\n"}

Texts == SeqUpTo(Tokens, MaxMsg)

\* what a successful run prints
Outputs == SeqUpTo(Tokens, 1)

\* String.prototype.split(sep): the pieces between the separators
RECURSIVE SplitFrom(_, _, _, _, _)
SplitFrom(text, sep, i, piece, pieces) ==
  IF i > Len(text) THEN Append(pieces, piece)
  ELSE IF text[i] = sep THEN SplitFrom(text, sep, i + 1, <<>>, Append(pieces, piece))
  ELSE SplitFrom(text, sep, i + 1, Append(piece, text[i]), pieces)

Split(text, sep) == SplitFrom(text, sep, 1, <<>>, <<>>)

\* /^.*ERROR .*$/.test(line), for a line without a line end
ErrorLineTest(line) == \E i \in 1..Len(line) : line[i] = "ERROR "

\* line.split('ERROR ')[1].split(':')[0]
CodeOfLine(line) == Split(Split(line, "ERROR ")[2], ":")[1]

parseHttpErrorCodesFromWgetErrorMessage(err) ==
  LET lines == SelectSeq(Split(err.message, "\n"), ErrorLineTest)
  IN [i \in 1..Len(lines) |-> CodeOfLine(lines[i])]

\* httpErrorCodes.forEach(code => { if (code !== '404') shouldThrow = true })
RECURSIVE ForEachCode(_, _, _)
ForEachCode(codes, i, shouldThrow) ==
  IF i > Len(codes) THEN shouldThrow
  ELSE ForEachCode(codes, i + 1, IF codes[i] # <<"404">> THEN TRUE ELSE shouldThrow)

\* ShouldThrow without the test for an empty list of codes
ShouldThrowNoLengthTest(codes) == ForEachCode(codes, 1, FALSE)

\* the value of shouldThrow at the end of the catch block
ShouldThrow(codes) == ForEachCode(codes, 1, Len(codes) = 0)

CloneUnused ==
  /\ cwPc = "unused"
  /\ cwErr = Undefined
  /\ cwResult = Undefined
  /\ cwThrown = Undefined

InitClone ==
  /\ cwPc = "idle"
  /\ cwErr = Undefined
  /\ cwResult = Undefined
  /\ cwThrown = Undefined

\* the call, up to the await of the wget process
cloneWebsite ==
  /\ cwPc = "idle"
  /\ cwPc' = "awaiting"
  /\ UNCHANGED <<cwErr, cwResult, cwThrown, reportVars, comparePathVars, processVars>>

\* wget ends well: its output is returned
WgetSucceeds(output) ==
  /\ cwPc = "awaiting"
  /\ cwPc' = "returned"
  /\ cwResult' = Str(output)
  /\ UNCHANGED <<cwErr, cwThrown, reportVars, comparePathVars, processVars>>

\* wget fails with an Error of the given message: the catch block
WgetFails(message) ==
  /\ cwPc = "awaiting"
  /\ LET err == [t |-> "Error", message |-> message]
         httpErrorCodes == parseHttpErrorCodesFromWgetErrorMessage(err)
     IN /\ cwErr' = err
        /\ IF ShouldThrow(httpErrorCodes)
           THEN /\ cwPc' = "thrown"
                /\ cwThrown' = err
                /\ UNCHANGED cwResult
           ELSE /\ cwPc' = "returned"
                /\ cwResult' = Str(err.message)
                /\ UNCHANGED cwThrown
  /\ UNCHANGED <<reportVars, comparePathVars, processVars>>

NextClone ==
  \/ cloneWebsite
  \/ /\ cwPc = "awaiting"
     /\ \E output \in Outputs : WgetSucceeds(output)
  \/ /\ cwPc = "awaiting"
     /\ \E message \in Texts : WgetFails(message)

----------------------------------------------------------------------------
(* Specifications: one per operation, the state of the others left alone *)

InitReportSpec == InitReport /\ ComparePathUnused /\ ProcessUnused /\ CloneUnused

SpecReport == InitReportSpec /\ [][NextReport]_vars

InitComparePathSpec == InitComparePath /\ InitReport /\ ProcessUnused /\ CloneUnused

SpecComparePath == InitComparePathSpec /\ [][NextComparePath]_vars

InitProcessSpec == InitProcess /\ InitReport /\ ComparePathUnused /\ CloneUnused

SpecProcess == InitProcessSpec /\ [][NextProcess]_vars

InitCloneSpec == InitClone /\ InitReport /\ ComparePathUnused /\ ProcessUnused

SpecClone == InitCloneSpec /\ [][NextClone]_vars

----------------------------------------------------------------------------
(* Claims about the manifest differ, checked under SpecReport *)

Called == pc # "idle"

Returned == pc = "returned"

PathsOf(manifest) == {manifest[i].comparePath : i \in 1..Len(manifest)}

RecordsOf(manifest) == {manifest[i] : i \in 1..Len(manifest)}

\* every reordering of a manifest
PermutationsOf(manifest) ==
  {[i \in 1..Len(manifest) |-> manifest[f[i]]] : f \in Permutations(1..Len(manifest))}

\* C1: the root digest of a manifest is the root digest of every permutation of
\* its records, for the cached and the cloned manifest of every call, and the
\* report's clonedRootHash is the digest of every permutation of the clone.
RootHashPermutationInvariant ==
  Called =>
    /\ \A m \in PermutationsOf(newFileList) :
         /\ calcSiteDiffRootHash(m) = calcSiteDiffRootHash(newFileList)
         /\ Returned => report.clonedRootHash = calcSiteDiffRootHash(m)
    /\ \A m \in PermutationsOf(oldFileList) :
         calcSiteDiffRootHash(m) = calcSiteDiffRootHash(oldFileList)

\* a report over a clone whose hashes are not in sorted order
RootHashPermutationWitness ==
  /\ Returned
  /\ Len(newFileList) = 2
  /\ StrLess(newFileList[2].hash, newFileList[1].hash)
  /\ report.clonedRootHash = hashSha256(newFileList[2].hash \o newFileList[1].hash)

\* comparePath P is in both manifests with differing hashes
DiffersInBoth(P) ==
  \E o \in RecordsOf(oldFileList), n \in RecordsOf(newFileList) :
    o.comparePath = P /\ n.comparePath = P /\ o.hash # n.hash

InList(P, files) == \E i \in 1..Len(files) : files[i].comparePath = P

OnIgnoreList(P) == \E i \in 1..Len(ignoredFilesConfig) : ignoredFilesConfig[i] = P

\* C2: in a returned report, every comparePath in both manifests with differing
\* hashes is in exactly one of changedFiles and ignoredFiles, and in
\* ignoredFiles iff it is on the ignore-list.
IgnoreListPartition ==
  Returned =>
    \A P \in ComparePaths :
      DiffersInBoth(P) =>
        /\ InList(P, report.changedFiles) # InList(P, report.ignoredFiles)
        /\ InList(P, report.ignoredFiles) <=> OnIgnoreList(P)

\* a report with one differing path ignored and another one kept as changed
IgnoreListPartitionWitness ==
  /\ Returned
  /\ \E P \in ComparePaths, Q \in ComparePaths :
       /\ DiffersInBoth(P) /\ OnIgnoreList(P) /\ InList(P, report.ignoredFiles)
       /\ DiffersInBoth(Q) /\ ~OnIgnoreList(Q) /\ InList(Q, report.changedFiles)

\* C3: for manifests with disjoint comparePath sets nothing is changed, every
\* record of new is new and every record of old is deleted.
DisjointManifests ==
  (Called /\ PathsOf(oldFileList) \cap PathsOf(newFileList) = {}) =>
    /\ detectChangedFiles(oldFileList, newFileList) = <<>>
    /\ changedFiles = <<>>
    /\ ignoredFiles = <<>>
    /\ newFiles = newFileList
    /\ deletedFiles = oldFileList

\* disjoint non-empty manifests whose records share a hash
DisjointManifestsWitness ==
  /\ Returned
  /\ PathsOf(oldFileList) \cap PathsOf(newFileList) = {}
  /\ Len(oldFileList) > 0
  /\ Len(newFileList) > 0
  /\ oldFileList[1].hash = newFileList[1].hash
  /\ report.newFiles = newFileList
  /\ report.deletedFiles = oldFileList

NothingDetected ==
  /\ newFiles = <<>>
  /\ deletedFiles = <<>>
  /\ detectChangedFiles(oldFileList, newFileList) = <<>>
  /\ changedFiles = <<>>
  /\ ignoredFiles = <<>>
  /\ calcSiteDiffRootHash(oldFileList) = calcSiteDiffRootHash(newFileList)

\* C4 as claimed: diffing any manifest against itself detects nothing.
SelfDiffEmpty == (Called /\ oldFileList = newFileList) => NothingDetected

\* records of a manifest that share a comparePath share their hash
OneHashPerPath(manifest) ==
  \A r \in RecordsOf(manifest), q \in RecordsOf(manifest) :
    r.comparePath = q.comparePath => r.hash = q.hash

\* C4 as amended: diffing a manifest against itself detects nothing when the
\* records that share a comparePath share their hash.
SelfDiffEmptyOneHashPerPath ==
  (Called /\ oldFileList = newFileList /\ OneHashPerPath(newFileList)) => NothingDetected

\* a report of a manifest of two files against itself
SelfDiffWitness ==
  /\ Returned
  /\ oldFileList = newFileList
  /\ Len(newFileList) = 2
  /\ newFileList[1].hash # newFileList[2].hash
  /\ OneHashPerPath(newFileList)
  /\ report.changedFiles = <<>>

\* the first record of old, in manifest order, with the comparePath of n
HasMatch(n, old) == \E i \in 1..Len(old) : old[i].comparePath = n.comparePath

FirstMatch(n, old) ==
  old[CHOOSE i \in 1..Len(old) :
        /\ old[i].comparePath = n.comparePath
        /\ \A j \in 1..(i - 1) : old[j].comparePath # n.comparePath]

\* C7 as claimed: a new record is detected as changed iff the FIRST old record
\* with its comparePath has a different hash.
FirstMatchDecidesChanged ==
  Called =>
    \A n \in RecordsOf(newFileList) :
      (n \in RecordsOf(detectChangedFiles(oldFileList, newFileList)))
        <=> (HasMatch(n, oldFileList) /\ FirstMatch(n, oldFileList).hash # n.hash)

\* Map semantics: the last record of a comparePath is the entry of its key
MapGet(manifest, key) ==
  manifest[CHOOSE i \in 1..Len(manifest) :
             /\ manifest[i].comparePath = key
             /\ \A j \in (i + 1)..Len(manifest) : manifest[j].comparePath # key]

MapAdded(old, new) ==
  SelectSeq(new, LAMBDA n : n.comparePath \notin PathsOf(old))

MapRemoved(old, new) ==
  SelectSeq(old, LAMBDA o : o.comparePath \notin PathsOf(new))

MapChanged(old, new) ==
  SelectSeq(new, LAMBDA n :
    n.comparePath \in PathsOf(old) /\ MapGet(old, n.comparePath).hash # n.hash)

UniquePaths(manifest) ==
  \A i \in 1..Len(manifest), j \in 1..Len(manifest) :
    manifest[i].comparePath = manifest[j].comparePath => i = j

\* C8: on manifests without duplicate comparePaths the nested lookups return
\* the sequences of a map-based join keyed by comparePath.
MapJoinEquivalence ==
  (Called /\ UniquePaths(oldFileList) /\ UniquePaths(newFileList)) =>
    /\ newFiles = MapAdded(oldFileList, newFileList)
    /\ deletedFiles = MapRemoved(oldFileList, newFileList)
    /\ detectChangedFiles(oldFileList, newFileList) = MapChanged(oldFileList, newFileList)

\* the example of the specification: one changed file and one added file
MapJoinEquivalenceWitness ==
  /\ Called
  /\ UniquePaths(oldFileList) /\ UniquePaths(newFileList)
  /\ Len(oldFileList) = 1 /\ Len(newFileList) = 2
  /\ oldFileList[1].comparePath = "a.html"
  /\ newFileList[1].comparePath = "a.html"
  /\ newFileList[2].comparePath = "b.html"
  /\ newFiles = <<newFileList[2]>>
  /\ deletedFiles = <<>>
  /\ changedFiles = <<newFileList[1]>>

\* C10: a returned report has one diff per changed file left after the ignore
\* filter, the i-th being the diff of the first old record with the comparePath
\* of the i-th changed file against that changed file; a failed diff fails the
\* call and no report is returned.
HtmlDiffsAligned ==
  /\ Returned =>
       /\ Len(report.htmlDiffs) = Len(report.changedFiles)
       /\ \A i \in 1..Len(report.changedFiles) :
            LET n == report.changedFiles[i]
            IN /\ ~OnIgnoreList(n.comparePath)
               /\ HasMatch(n, oldFileList)
               /\ report.htmlDiffs[i] =
                    getHTMLDiffFromTwoFiles(Str(FirstMatch(n, oldFileList).fullPath),
                                            n.fullPath)
       /\ \A i \in 1..Len(report.ignoredFiles) :
            \A k \in 1..Len(report.htmlDiffs) :
              report.htmlDiffs[k][3] # report.ignoredFiles[i].fullPath
  /\ (\E i \in 1..Len(htmlDiffPromises) : htmlDiffPromises[i].state = "rejected") =>
       pc = "thrown"
  /\ ~Returned => report = NoReport

\* a report with two diffs whose processes exited in the reverse order, the
\* old file of the first changed file being the second record of old
HtmlDiffsAlignedWitness ==
  /\ Returned
  /\ Len(report.htmlDiffs) = 2
  /\ completed = <<2, 1>>
  /\ Len(oldFileList) = 2
  /\ report.htmlDiffs[1][2] = Str(oldFileList[2].fullPath)

----------------------------------------------------------------------------
(* Claims about getComparePath, checked under SpecComparePath *)

HasMarker(path, base) == \E i \in 1..Len(path) : CloneCacheTest(base, path[i])

FirstMarker(path, base) ==
  CHOOSE i \in 1..Len(path) :
    CloneCacheTest(base, path[i]) /\ \A j \in 1..(i - 1) : ~CloneCacheTest(base, path[j])

\* the segments after the first one that matches
AfterMarker(path, base) == SubSeq(path, FirstMarker(path, base) + 1, Len(path))

\* C6 as claimed: the comparePath is the segments after the first matching
\* segment joined by '/', and empty without a matching segment.
ComparePathIsRest ==
  cpPc = "returned" =>
    comparePath = Str(IF HasMarker(filePath, siteBase)
                      THEN JoinSlash(AfterMarker(filePath, siteBase))
                      ELSE <<>>)

\* C6 as amended: the comparePath is the non-empty segments after the first
\* matching segment joined by '/', and empty without a matching segment.
ComparePathIsNonEmptyRest ==
  cpPc = "returned" =>
    comparePath = Str(IF HasMarker(filePath, siteBase)
                      THEN JoinSlash(SelectSeq(AfterMarker(filePath, siteBase),
                                               LAMBDA x : x # <<>>))
                      ELSE <<>>)

\* "x/s.cache/s" with site base "s" has comparePath "s"
ComparePathWitness ==
  /\ cpPc = "returned"
  /\ siteBase = <<"s">>
  /\ filePath = << <<"x">>, <<"s", ".", "cache">>, <<"s">> >>
  /\ HasMarker(filePath, siteBase)
  /\ AfterMarker(filePath, siteBase) = << <<"s">> >>
  /\ comparePath = Str(<<"s">>)

----------------------------------------------------------------------------
(* Claims about processFileList, checked under SpecProcess *)

\* C9 as claimed: the resolved manifest has one record per input file and the
\* record of the i-th input file is at position i, whatever the order in
\* which the hashes complete.
ManifestInInputOrder ==
  pflPc = "resolved" =>
    /\ Len(resolvedList) = Len(fileList)
    /\ \A i \in 1..Len(fileList) :
         /\ resolvedList[i].fullPath = fileList[i].path
         /\ resolvedList[i].hash = hashFileSha256(fileList[i].path)

----------------------------------------------------------------------------
(* Claims about cloneWebsite, checked under SpecClone *)

WgetFailed == cwErr # Undefined

All404(codes) == codes # <<>> /\ \A i \in 1..Len(codes) : codes[i] = <<"404">>

\* C5: a failed mirror run returns the error text when the parsed HTTP error
\* codes are all 404 and there is at least one, and otherwise throws the
\* original error; a successful run returns its output.
OnlyAll404IsNonFatal ==
  /\ (cwPc \in {"returned", "thrown"} /\ WgetFailed) =>
       /\ cwPc = "returned" <=> All404(parseHttpErrorCodesFromWgetErrorMessage(cwErr))
       /\ cwPc = "returned" => cwResult = Str(cwErr.message) /\ cwThrown = Undefined
       /\ cwPc = "thrown" => cwThrown = cwErr /\ cwResult = Undefined
  /\ (cwPc \in {"returned", "thrown"} /\ ~WgetFailed) =>
       cwPc = "returned" /\ cwResult.t = "string" /\ cwThrown = Undefined

\* a failure with two 404 lines and nothing else is returned as text
OnlyAll404IsNonFatalWitness ==
  /\ cwPc = "returned"
  /\ WgetFailed
  /\ cwErr.message = <<"ERROR ", "404", "\n", "ERROR ", "404">>
  /\ cwResult = Str(cwErr.message)

====
